---- MODULE Spec2Model ----
(***************************************************************************)
(* A model of kitty's icat image-ingestion pipeline                        *)
(* (tools/cmd/icat/process_images.go): the worker pool (run_worker,        *)
(* process_arg, send_output, report_error), the byte source               *)
(* (BytesBuf, opened_input), the conversion decision (set_basic_metadata)  *)
(* and the source resolver (process_dirs).                                 *)
(***************************************************************************)
EXTENDS Integers, Sequences, FiniteSets, TLC

(* ------------------------------ bounds -------------------------------- *)
\* number of goroutines running run_worker
NumWorkers == 2
\* number of input_arg values pre-filled into files_channel
NumItems == 2
\* capacity of output_channel
ChanCap == 1

\* the width in bits of the integers that hold a BytesBuf's position and a
\* Seek's offset (int64), scaled down
PosBits == 5

Workers == 1..NumWorkers
Items == 1..NumItems

(* ------------------------- values of the program ---------------------- *)
\* A string that the program takes apart is the sequence of its pieces: a
\* URL is its scheme followed by the components of its path, a path is its
\* components. The empty string:
EmptyString == << >>

\* a nil slice; a slice is a window [ptr, len] onto a backing array of heap
NilSlice == [ptr |-> 0, len |-> 0]
\* the nil io.ReadSeekCloser
NilFile == [kind |-> "nil", data |-> NilSlice, name |-> EmptyString, pos |-> 0]
\* a nil error; a non-nil error is the sequence of the pieces of its message
NilErr == << >>
\* image.Config's zero value
ZeroConfig == [Width |-> 0, Height |-> 0]

\* http.StatusOK
StatusOK == 200

\* the bytes a slice denotes
SliceBytes(hp, s) == IF s.ptr = 0 THEN << >> ELSE SubSeq(hp[s.ptr], 1, s.len)

\* the zero value of image_data
ZeroImageData ==
  [source_name |-> EmptyString, err |-> NilErr,
   canvas_width |-> 0, canvas_height |-> 0, format_uppercase |-> "",
   available_width |-> 0, available_height |-> 0,
   needs_scaling |-> FALSE, needs_conversion |-> FALSE,
   frames |-> << >>]

\* the zero value of image_frame
ZeroFrame ==
  [filename |-> EmptyString, in_memory_bytes |-> NilSlice,
   filename_is_temporary |-> FALSE, width |-> 0, height |-> 0]

\* the zero value of opened_input
ZeroInput == [file |-> NilFile, name_to_unlink |-> EmptyString]

\* fmt.Errorf("%s: %w", msg, err): the message is msg, ": ", then the cause's
ErrorF(msg, cause) == <<msg, ": ">> \o cause

\* strings.ToUpper on the format names image.DecodeConfig returns
ToUpper(s) ==
  CASE s = "png" -> "PNG"
    [] s = "jpeg" -> "JPEG"
    [] OTHER -> s

(* --------------------------- the environment -------------------------- *)
\* Magic numbers of the encodings the registered decoders recognise: the
\* first byte of a stream names the container, the next two its width and
\* height.
MagicPNG == 1
MagicJPEG == 2

\* image.DecodeConfig on the bytes of a stream: the header alone decides
DecodeConfig(bytes) ==
  IF Len(bytes) >= 3 /\ bytes[1] \in {MagicPNG, MagicJPEG}
  THEN [c |-> [Width |-> bytes[2], Height |-> bytes[3]],
        format |-> IF bytes[1] = MagicPNG THEN "png" ELSE "jpeg",
        err |-> NilErr,
        read |-> 3]
  ELSE [c |-> ZeroConfig, format |-> "",
        err |-> <<"image: unknown format">>,
        read |-> IF Len(bytes) < 3 THEN Len(bytes) ELSE 1]


\* what the outside world answers for one input_arg: the HTTP exchange, the
\* read of standard input, the open of the path, the bytes behind it and the
\* renderer's verdict on them
Answer(arg, get_err, status, read_err, open_err, content, render_err, spill) ==
  [arg |-> arg, get_err |-> get_err, status |-> status, read_err |-> read_err,
   open_err |-> open_err, content |-> content, render_err |-> render_err,
   spill |-> spill]

\* input_arg values as process_dirs builds them
HttpArg(u) == [arg |-> u, value |-> u, is_http_url |-> TRUE]
StdinArg == [arg |-> <<"dev", "stdin">>, value |-> EmptyString, is_http_url |-> FALSE]
FileArg(a, p) == [arg |-> a, value |-> p, is_http_url |-> FALSE]

\* streams: a PNG that fits the display, a PNG wider than it, a JPEG, text
SmallPNG == <<MagicPNG, 2, 2>>
WidePNG == <<MagicPNG, 5, 2>>
SmallJPEG == <<MagicJPEG, 2, 2>>
TextBytes == <<7, 7, 7, 7>>

\* the inputs a batch is drawn from
Profiles ==
  << Answer(HttpArg(<<"http://", "h", "404">>),
            FALSE, 404, FALSE, FALSE, << >>, FALSE, FALSE),
     Answer(FileArg(<<"d">>, <<"d", "a.png">>), FALSE, 0, FALSE, FALSE, SmallPNG, FALSE, FALSE),
     Answer(StdinArg, FALSE, 0, FALSE, FALSE, SmallPNG, FALSE, FALSE),
     Answer(FileArg(<<"b.jpg">>, <<"b.jpg">>), FALSE, 0, FALSE, FALSE, SmallJPEG, TRUE, FALSE),
     Answer(HttpArg(<<"https://", "h", "a.png">>), FALSE, 200, FALSE, FALSE, SmallPNG, FALSE, FALSE),
     Answer(FileArg(<<"t.txt">>, <<"t.txt">>), FALSE, 0, FALSE, FALSE, TextBytes, FALSE, FALSE),
     Answer(FileArg(<<"w.png">>, <<"w.png">>), FALSE, 0, FALSE, FALSE, WidePNG, FALSE, TRUE),
     Answer(StdinArg, FALSE, 0, TRUE, FALSE, << >>, FALSE, FALSE),
     Answer(FileArg(<<"gone.png">>, <<"gone.png">>), FALSE, 0, FALSE, TRUE, << >>, FALSE, FALSE),
     Answer(HttpArg(<<"http://", "h", "204">>), FALSE, 204, FALSE, FALSE, SmallPNG, FALSE, FALSE),
     Answer(HttpArg(<<"http://", "h", "cut">>), FALSE, 200, TRUE, FALSE, << >>, FALSE, FALSE),
     Answer(HttpArg(<<"http://", "h", "down">>), TRUE, 0, FALSE, FALSE, << >>, FALSE, FALSE) >>

\* the batch that starts at the k-th profile
Batch(k) == [i \in Items |-> Profiles[((k + i - 2) % Len(Profiles)) + 1]]

\* the display geometry and flags of the pool's runs
NoPlace == [set |-> FALSE, width |-> 0, height |-> 0]
PoolScreen == [WidthPx |-> 4, CellWidth |-> 2, CellHeight |-> 2]
PoolOpts == [Stdin |-> "detect", ScaleUp |-> FALSE]

(* ------------------------------- state -------------------------------- *)
VARIABLES
  world,           \* item -> what the outside world answers for it
  files_channel,   \* the pre-filled queue of items
  keep_going,      \* the cancellation flag (true while running)
  output_channel,  \* the results sent and not yet received
  wakeups,         \* calls of lp.WakeupMainThread so far
  pc,              \* worker -> its place in run_worker / process_arg
  arg,             \* worker -> the item it holds (0: none)
  f,               \* worker -> its opened_input
  imgd,            \* worker -> its image_data in progress
  out,             \* worker -> the image_data send_output is sending
  cfg,             \* worker -> what image.DecodeConfig returned
  heap,            \* item -> the backing array of its in-memory bytes
  disk,            \* the paths that exist on the filesystem
  screen_size, place, opts, remove_alpha, flip, flop,
  hist,            \* what has happened to each item
  args,            \* the caller's arguments to process_dirs
  is_terminal,     \* whether standard input is a terminal
  resolved,        \* what process_dirs returned, once it has
  outcomes         \* the results of the resolved items, in their order

poolVars == <<world, files_channel, keep_going, output_channel, wakeups, pc,
              arg, f, imgd, out, cfg, heap, disk, hist>>
envVars == <<screen_size, place, opts, remove_alpha, flip, flop>>
dirVars == <<args, is_terminal, resolved, outcomes>>
vars == <<poolVars, envVars, dirVars>>

\* process_dirs has not been called
NotResolved == [done |-> FALSE, results |-> << >>, err |-> NilErr]

\* the record kept of one item; reads counts its calls of io.ReadAll(os.Stdin)
NoHistory ==
  [claims |-> 0, at_claim |-> TRUE, load1 |-> "none", load2 |-> "none",
   sent |-> << >>, at_send |-> TRUE, opens |-> 0, closes |-> 0, removes |-> 0,
   probed |-> FALSE, rendered |-> FALSE, returned |-> FALSE, reads |-> 0]


(* --------------------------- the byte source -------------------------- *)
\* io.SeekStart, io.SeekCurrent, io.SeekEnd
SeekStart == 0
SeekCurrent == 1
SeekEnd == 2

Min(a, b) == IF a < b THEN a ELSE b
Max(a, b) == IF a > b THEN a ELSE b

\* the least and the greatest integer of that width, and an integer sum as
\* the width wraps it
MinInt == -(2 ^ (PosBits - 1))
MaxInt == 2 ^ (PosBits - 1) - 1
Wrap(x) == ((x - MinInt) % (2 ^ PosBits)) + MinInt

\* Seek without the lower limit on the position
BytesBufSeekNoFloor(self, offset, whence) ==
  IF whence \notin {SeekStart, SeekCurrent, SeekEnd}
  THEN [self |-> self, ret |-> self.pos, err |-> <<"Unknown value for whence">>]
  ELSE LET target == CASE whence = SeekStart -> offset
                       [] whence = SeekCurrent -> Wrap(self.pos + offset)
                       [] whence = SeekEnd -> Wrap(self.data.len + offset)
           clamped == Min(target, self.data.len)
       IN [self |-> [self EXCEPT !.pos = clamped], ret |-> clamped, err |-> NilErr]

\* BytesBuf.Seek: the new BytesBuf, the position returned, whether it failed
BytesBufSeek(self, offset, whence) ==
  IF whence \notin {SeekStart, SeekCurrent, SeekEnd}
  THEN [self |-> self, ret |-> self.pos, err |-> <<"Unknown value for whence">>]
  ELSE LET target == CASE whence = SeekStart -> offset
                       [] whence = SeekCurrent -> Wrap(self.pos + offset)
                       [] whence = SeekEnd -> Wrap(self.data.len + offset)
           clamped == Max(0, Min(target, self.data.len))
       IN [self |-> [self EXCEPT !.pos = clamped], ret |-> clamped, err |-> NilErr]

\* BytesBuf.Read into a buffer of n bytes: the new BytesBuf, the bytes copied,
\* whether io.EOF was returned
BytesBufRead(self, hp, n) ==
  LET nb == Min(n, self.data.len - self.pos)
  IN IF nb = 0
     THEN [self |-> self, bytes |-> << >>, eof |-> TRUE]
     ELSE [self |-> [self EXCEPT !.pos = self.pos + nb],
           bytes |-> SubSeq(SliceBytes(hp, self.data), self.pos + 1, self.pos + nb),
           eof |-> FALSE]

\* Close zeroing the bytes before dropping them
BytesBufCloseWipe(self, hp) ==
  [self |-> [self EXCEPT !.data = NilSlice, !.pos = 0],
   heap |-> IF self.data.ptr = 0 THEN hp
            ELSE [hp EXCEPT ![self.data.ptr] = [k \in 1..Len(@) |-> 0]]]

\* BytesBuf.Close: drops the reference to the bytes, which stay where they are
BytesBufClose(self, hp) ==
  [self |-> [self EXCEPT !.data = NilSlice, !.pos = 0], heap |-> hp]

\* Rewind seeking from the current position
RewindCurrent(self) ==
  IF self.file.kind = "nil" THEN self
  ELSE IF self.file.kind = "BytesBuf"
       THEN [self EXCEPT !.file = BytesBufSeek(self.file, 0, SeekCurrent).self]
       ELSE self

\* opened_input.Rewind
Rewind(self) ==
  IF self.file.kind = "nil" THEN self
  ELSE IF self.file.kind = "BytesBuf"
       THEN [self EXCEPT !.file = BytesBufSeek(self.file, 0, SeekStart).self]
       ELSE [self EXCEPT !.file.pos = 0]

\* Release forgetting the temporary path
ReleaseNoUnlink(self, hp, dk) ==
  [f |-> [file |-> NilFile, name_to_unlink |-> EmptyString],
   heap |-> hp, disk |-> dk,
   closed |-> IF self.file.kind # "nil" THEN 1 ELSE 0,
   removed |-> 0]

\* opened_input.Release: the new opened_input, heap and disk, and how many
\* handles it closed and paths it removed
Release(self, hp, dk) ==
  LET closing == self.file.kind # "nil"
      hp1 == IF self.file.kind = "BytesBuf"
             THEN BytesBufClose(self.file, hp).heap ELSE hp
      unlinking == self.name_to_unlink # EmptyString
  IN [f |-> [file |-> NilFile, name_to_unlink |-> EmptyString],
      heap |-> hp1,
      disk |-> IF unlinking THEN dk \ {self.name_to_unlink} ELSE dk,
      closed |-> IF closing THEN 1 ELSE 0,
      removed |-> IF unlinking THEN 1 ELSE 0]

\* process_arg, image.DecodeConfig(f.file) and f.Rewind(): the decoder reads
\* the header from where the source stands, content being the bytes of a
\* source that is a file; then the source is rewound, whatever was decoded
DecodeConfigAndRewind(fi, hp, content) ==
  LET bytes == IF fi.file.kind = "BytesBuf"
               THEN SubSeq(SliceBytes(hp, fi.file.data), fi.file.pos + 1,
                           fi.file.data.len)
               ELSE content
      dc == DecodeConfig(bytes)
      read == IF fi.file.kind = "BytesBuf"
              THEN [fi EXCEPT !.file = BytesBufRead(fi.file, hp, dc.read).self]
              ELSE [fi EXCEPT !.file.pos = dc.read]
  IN [f |-> Rewind(read), dc |-> dc, probed |-> read]

(* ----------------------- the conversion decision ---------------------- *)
\* set_basic_metadata scaling an image that exactly fills the width
set_basic_metadata_ge(d, ss, pl, scale_up, alpha, fl, fo) ==
  LET aw == IF pl.set THEN pl.width * ss.CellWidth ELSE ss.WidthPx
      ah == IF pl.set THEN pl.height * ss.CellHeight ELSE 10 * d.canvas_height
      ns == d.canvas_width >= aw \/ d.canvas_height > ah \/ scale_up
      nc == ns \/ alpha \/ fl \/ fo \/ d.format_uppercase # "PNG"
  IN [d EXCEPT !.available_width = aw, !.available_height = ah,
               !.needs_scaling = ns, !.needs_conversion = nc]

\* set_basic_metadata taking the cell height for the cell width
set_basic_metadata_cell(d, ss, pl, scale_up, alpha, fl, fo) ==
  LET aw == IF pl.set THEN pl.width * ss.CellHeight ELSE ss.WidthPx
      ah == IF pl.set THEN pl.height * ss.CellHeight ELSE 10 * d.canvas_height
      ns == d.canvas_width > aw \/ d.canvas_height > ah \/ scale_up
      nc == ns \/ alpha \/ fl \/ fo \/ d.format_uppercase # "PNG"
  IN [d EXCEPT !.available_width = aw, !.available_height = ah,
               !.needs_scaling = ns, !.needs_conversion = nc]

\* set_basic_metadata
set_basic_metadata(d, ss, pl, scale_up, alpha, fl, fo) ==
  LET aw == IF pl.set THEN pl.width * ss.CellWidth ELSE ss.WidthPx
      ah == IF pl.set THEN pl.height * ss.CellHeight ELSE 10 * d.canvas_height
      ns == d.canvas_width > aw \/ d.canvas_height > ah \/ scale_up
      nc == ns \/ alpha \/ fl \/ fo \/ d.format_uppercase # "PNG"
  IN [d EXCEPT !.available_width = aw, !.available_height = ah,
               !.needs_scaling = ns, !.needs_conversion = nc]

(* ------------------------------ the sink ------------------------------ *)
\* the image_data report_error builds
report_error(source_name, msg, err) ==
  [ZeroImageData EXCEPT !.source_name = source_name, !.err = ErrorF(msg, err)]

\* make_output_from_input: the new image_data and opened_input
make_output_from_input(d, fi) ==
  LET frame0 == [ZeroFrame EXCEPT !.width = d.canvas_width,
                                  !.height = d.canvas_height]
      frame == IF fi.file.kind = "BytesBuf"
               THEN [frame0 EXCEPT !.in_memory_bytes = fi.file.data]
               ELSE [frame0 EXCEPT !.filename = fi.file.name,
                       !.filename_is_temporary = (fi.name_to_unlink # EmptyString)]
      fi1 == IF fi.file.kind # "BytesBuf" /\ fi.name_to_unlink # EmptyString
             THEN [fi EXCEPT !.name_to_unlink = EmptyString] ELSE fi
  IN [imgd |-> [d EXCEPT !.frames = Append(d.frames, frame)], f |-> fi1]


(* ---------------------------- the renderer ---------------------------- *)
\* the path of the temporary file made for item i
TempPath(what, i) == <<"tmp", what \o ToString(i)>>

\* render_image_with_go: may put the source on the filesystem under a
\* temporary path the opened_input then owns; fails, leaving in the
\* image_data the frame it had begun, or appends one frame whose converted
\* output is a temporary file the frame owns
render_image_with_go(d, fi, ans, i, dk) ==
  LET spilled == TempPath("in", i)
      made == TempPath("out", i)
      fi1 == IF ans.spill THEN [fi EXCEPT !.name_to_unlink = spilled] ELSE fi
      dk1 == IF ans.spill THEN dk \cup {spilled} ELSE dk
      frame == [ZeroFrame EXCEPT !.filename = made, !.filename_is_temporary = TRUE,
                                 !.width = d.canvas_width, !.height = d.canvas_height]
  IN IF ans.render_err
     THEN [imgd |-> [d EXCEPT !.frames =
                       Append(d.frames, [ZeroFrame EXCEPT !.width = d.canvas_width,
                                                          !.height = d.canvas_height])],
           f |-> fi1, disk |-> dk1, err |-> <<"render failed">>]
     ELSE [imgd |-> [d EXCEPT !.frames = Append(d.frames, frame)], f |-> fi1,
           disk |-> dk1 \cup {made}, err |-> NilErr]

(* ------------------------------ the pool ------------------------------ *)
\* the paths of the batch that exist before the pool starts
SourcePaths(wd) ==
  {wd[i].arg.value : i \in {j \in Items : ~wd[j].arg.is_http_url
                                        /\ wd[j].arg.value # EmptyString
                                        /\ ~wd[j].open_err}}

Init ==
  /\ \E k \in 1..Len(Profiles) : world = Batch(k)
  /\ files_channel = [i \in Items |-> i]
  /\ keep_going = TRUE
  /\ output_channel = << >>
  /\ wakeups = 0
  /\ pc = [w \in Workers |-> "select"]
  /\ arg = [w \in Workers |-> 0]
  /\ f = [w \in Workers |-> ZeroInput]
  /\ imgd = [w \in Workers |-> ZeroImageData]
  /\ out = [w \in Workers |-> ZeroImageData]
  /\ cfg = [w \in Workers |-> [c |-> ZeroConfig, format |-> "", deferred |-> FALSE]]
  /\ heap = [i \in Items |-> << >>]
  /\ disk = SourcePaths(world)
  /\ screen_size = PoolScreen
  /\ place = NoPlace
  /\ opts = PoolOpts
  /\ remove_alpha = FALSE
  /\ flip = FALSE
  /\ flop = FALSE
  /\ hist = [i \in Items |-> NoHistory]
  /\ args = << >>
  /\ is_terminal = TRUE
  /\ resolved = NotResolved
  /\ outcomes = << >>

\* Return leaving run_worker after an error was reported
ReturnStopOnError(w, h) ==
  LET i == arg[w]
      r == IF cfg[w].deferred THEN Release(f[w], heap, disk)
           ELSE [f |-> f[w], heap |-> heap, disk |-> disk, closed |-> 0, removed |-> 0]
  IN /\ f' = [f EXCEPT ![w] = ZeroInput]
     /\ heap' = r.heap
     /\ disk' = r.disk
     /\ hist' = [h EXCEPT ![i].closes = @ + r.closed,
                          ![i].removes = @ + r.removed,
                          ![i].returned = TRUE]
     /\ arg' = [arg EXCEPT ![w] = 0]
     /\ imgd' = [imgd EXCEPT ![w] = ZeroImageData]
     /\ out' = [out EXCEPT ![w] = ZeroImageData]
     /\ cfg' = [cfg EXCEPT ![w] = [c |-> ZeroConfig, format |-> "", deferred |-> FALSE]]
     /\ pc' = [pc EXCEPT ![w] = IF out[w].err # NilErr THEN "done" ELSE "select"]

\* process_arg returns: the deferred f.Release() runs, if it was deferred
Return(w, h) ==
  LET i == arg[w]
      r == IF cfg[w].deferred THEN Release(f[w], heap, disk)
           ELSE [f |-> f[w], heap |-> heap, disk |-> disk, closed |-> 0, removed |-> 0]
  IN /\ f' = [f EXCEPT ![w] = ZeroInput]
     /\ heap' = r.heap
     /\ disk' = r.disk
     /\ hist' = [h EXCEPT ![i].closes = @ + r.closed,
                          ![i].removes = @ + r.removed,
                          ![i].returned = TRUE]
     /\ arg' = [arg EXCEPT ![w] = 0]
     /\ imgd' = [imgd EXCEPT ![w] = ZeroImageData]
     /\ out' = [out EXCEPT ![w] = ZeroImageData]
     /\ cfg' = [cfg EXCEPT ![w] = [c |-> ZeroConfig, format |-> "", deferred |-> FALSE]]
     /\ pc' = [pc EXCEPT ![w] = "select"]

\* Select reading the head of the queue without taking it off
SelectPeek(w) ==
  /\ pc[w] = "select"
  /\ IF files_channel # << >>
     THEN LET i == Head(files_channel)
          IN /\ arg' = [arg EXCEPT ![w] = i]
             /\ hist' = [hist EXCEPT ![i].claims = @ + 1, ![i].at_claim = keep_going]
             /\ pc' = [pc EXCEPT ![w] = "check_claim"]
             /\ files_channel' = IF hist[i].claims >= 1 THEN Tail(files_channel)
                                 ELSE files_channel
     ELSE /\ pc' = [pc EXCEPT ![w] = "done"]
          /\ UNCHANGED <<files_channel, arg, hist>>
  /\ UNCHANGED <<world, keep_going, output_channel, wakeups, f, imgd, out, cfg,
                 heap, disk, envVars, dirVars>>

\* run_worker, the select: take the next item, or stop on an empty queue
Select(w) ==
  /\ pc[w] = "select"
  /\ IF files_channel # << >>
     THEN LET i == Head(files_channel)
          IN /\ files_channel' = Tail(files_channel)
             /\ arg' = [arg EXCEPT ![w] = i]
             /\ hist' = [hist EXCEPT ![i].claims = @ + 1, ![i].at_claim = keep_going]
             /\ pc' = [pc EXCEPT ![w] = "check_claim"]
     ELSE /\ pc' = [pc EXCEPT ![w] = "done"]
          /\ UNCHANGED <<files_channel, arg, hist>>
  /\ UNCHANGED <<world, keep_going, output_channel, wakeups, f, imgd, out, cfg,
                 heap, disk, envVars, dirVars>>

\* CheckClaim going on to the item whatever keep_going is
CheckClaimIgnore(w) ==
  /\ pc[w] = "check_claim"
  /\ hist' = [hist EXCEPT ![arg[w]].load1 = IF keep_going THEN "go" ELSE "stop"]
  /\ pc' = [pc EXCEPT ![w] = "fetch"]
  /\ UNCHANGED <<world, files_channel, keep_going, output_channel, wakeups, arg, f,
                 imgd, out, cfg, heap, disk, envVars, dirVars>>

\* run_worker, the check of keep_going on the item just taken
CheckClaim(w) ==
  /\ pc[w] = "check_claim"
  /\ hist' = [hist EXCEPT ![arg[w]].load1 = IF keep_going THEN "go" ELSE "stop"]
  /\ pc' = [pc EXCEPT ![w] = IF keep_going THEN "fetch" ELSE "done"]
  /\ UNCHANGED <<world, files_channel, keep_going, output_channel, wakeups, arg, f,
                 imgd, out, cfg, heap, disk, envVars, dirVars>>

\* Fetched without the check of the response's status
FetchedAnyStatus(a, i) ==
  LET v == a.arg.value
      mem == [kind |-> "BytesBuf", data |-> [ptr |-> i, len |-> Len(a.content)],
              name |-> EmptyString, pos |-> 0]
  IN IF a.arg.is_http_url
     THEN IF a.get_err
          THEN [ok |-> FALSE, out |-> report_error(v, "Could not get", <<"transport">>),
                file |-> NilFile, stdin |-> FALSE]
          ELSE IF a.read_err
          THEN [ok |-> FALSE, out |-> report_error(v, "Could not download", <<"read">>),
                file |-> NilFile, stdin |-> FALSE]
          ELSE [ok |-> TRUE, out |-> ZeroImageData, file |-> mem, stdin |-> FALSE]
     ELSE IF v = EmptyString
     THEN IF a.read_err
          THEN [ok |-> FALSE,
                out |-> report_error(<<"<stdin>">>, "Could not read from", <<"read">>),
                file |-> NilFile, stdin |-> TRUE]
          ELSE [ok |-> TRUE, out |-> ZeroImageData, file |-> mem, stdin |-> TRUE]
     ELSE IF a.open_err
          THEN [ok |-> FALSE, out |-> report_error(v, "Could not open", <<"open">>),
                file |-> NilFile, stdin |-> FALSE]
          ELSE [ok |-> TRUE, out |-> ZeroImageData,
                file |-> [kind |-> "File", data |-> NilSlice, name |-> v, pos |-> 0],
                stdin |-> FALSE]

\* Fetched reading standard input for every item that is not remote
FetchedReadAlways(a, i) ==
  LET v == a.arg.value
      mem == [kind |-> "BytesBuf", data |-> [ptr |-> i, len |-> Len(a.content)],
              name |-> EmptyString, pos |-> 0]
  IN IF a.arg.is_http_url
     THEN IF a.get_err
          THEN [ok |-> FALSE, out |-> report_error(v, "Could not get", <<"transport">>),
                file |-> NilFile, stdin |-> FALSE]
          ELSE IF a.status # StatusOK
          THEN [ok |-> FALSE,
                out |-> report_error(v, "Could not get", <<"bad status: ", a.status>>),
                file |-> NilFile, stdin |-> FALSE]
          ELSE IF a.read_err
          THEN [ok |-> FALSE, out |-> report_error(v, "Could not download", <<"read">>),
                file |-> NilFile, stdin |-> FALSE]
          ELSE [ok |-> TRUE, out |-> ZeroImageData, file |-> mem, stdin |-> FALSE]
     ELSE IF TRUE
     THEN IF a.read_err
          THEN [ok |-> FALSE,
                out |-> report_error(<<"<stdin>">>, "Could not read from", <<"read">>),
                file |-> NilFile, stdin |-> TRUE]
          ELSE [ok |-> TRUE, out |-> ZeroImageData, file |-> mem, stdin |-> TRUE]
     ELSE IF a.open_err
          THEN [ok |-> FALSE, out |-> report_error(v, "Could not open", <<"open">>),
                file |-> NilFile, stdin |-> FALSE]
          ELSE [ok |-> TRUE, out |-> ZeroImageData,
                file |-> [kind |-> "File", data |-> NilSlice, name |-> v, pos |-> 0],
                stdin |-> FALSE]

\* process_arg, getting the bytes: what it reports, or the opened_input, and
\* whether it called io.ReadAll(os.Stdin)
Fetched(a, i) ==
  LET v == a.arg.value
      mem == [kind |-> "BytesBuf", data |-> [ptr |-> i, len |-> Len(a.content)],
              name |-> EmptyString, pos |-> 0]
  IN IF a.arg.is_http_url
     THEN IF a.get_err
          THEN [ok |-> FALSE, out |-> report_error(v, "Could not get", <<"transport">>),
                file |-> NilFile, stdin |-> FALSE]
          ELSE IF a.status # StatusOK
          THEN [ok |-> FALSE,
                out |-> report_error(v, "Could not get", <<"bad status: ", a.status>>),
                file |-> NilFile, stdin |-> FALSE]
          ELSE IF a.read_err
          THEN [ok |-> FALSE, out |-> report_error(v, "Could not download", <<"read">>),
                file |-> NilFile, stdin |-> FALSE]
          ELSE [ok |-> TRUE, out |-> ZeroImageData, file |-> mem, stdin |-> FALSE]
     ELSE IF v = EmptyString
     THEN IF a.read_err
          THEN [ok |-> FALSE,
                out |-> report_error(<<"<stdin>">>, "Could not read from", <<"read">>),
                file |-> NilFile, stdin |-> TRUE]
          ELSE [ok |-> TRUE, out |-> ZeroImageData, file |-> mem, stdin |-> TRUE]
     ELSE IF a.open_err
          THEN [ok |-> FALSE, out |-> report_error(v, "Could not open", <<"open">>),
                file |-> NilFile, stdin |-> FALSE]
          ELSE [ok |-> TRUE, out |-> ZeroImageData,
                file |-> [kind |-> "File", data |-> NilSlice, name |-> v, pos |-> 0],
                stdin |-> FALSE]

Fetch(w) ==
  /\ pc[w] = "fetch"
  /\ LET i == arg[w]
         r == Fetched(world[i], i)
     IN IF r.ok
        THEN /\ f' = [f EXCEPT ![w] = [file |-> r.file, name_to_unlink |-> EmptyString]]
             /\ heap' = IF r.file.kind = "BytesBuf"
                        THEN [heap EXCEPT ![i] = world[i].content] ELSE heap
             /\ cfg' = [cfg EXCEPT ![w].deferred = TRUE]
             /\ hist' = [hist EXCEPT ![i].opens = @ + 1,
                                     ![i].reads = IF r.stdin THEN @ + 1 ELSE @]
             /\ pc' = [pc EXCEPT ![w] = "probe"]
             /\ out' = out
        ELSE /\ out' = [out EXCEPT ![w] = r.out]
             /\ hist' = [hist EXCEPT ![i].reads = IF r.stdin THEN @ + 1 ELSE @]
             /\ pc' = [pc EXCEPT ![w] = "send"]
             /\ UNCHANGED <<f, heap, cfg>>
  /\ UNCHANGED <<world, files_channel, keep_going, output_channel, wakeups, arg,
                 imgd, disk, envVars, dirVars>>


\* process_arg, image.DecodeConfig and the Rewind after it
Probe(w) ==
  /\ pc[w] = "probe"
  /\ LET i == arg[w]
         v == world[i].arg.value
         pr == DecodeConfigAndRewind(f[w], heap, world[i].content)
         dc == pr.dc
     IN /\ f' = [f EXCEPT ![w] = pr.f]
        /\ imgd' = [imgd EXCEPT ![w] = [ZeroImageData EXCEPT !.source_name = v]]
        /\ hist' = [hist EXCEPT ![i].probed = TRUE]
        /\ IF dc.err # NilErr
           THEN /\ out' = [out EXCEPT ![w] = report_error(v, "Unknown image format", dc.err)]
                /\ pc' = [pc EXCEPT ![w] = "send"]
                /\ cfg' = cfg
           ELSE /\ cfg' = [cfg EXCEPT ![w].c = dc.c, ![w].format = dc.format]
                /\ pc' = [pc EXCEPT ![w] = "check_emit"]
                /\ out' = out
  /\ UNCHANGED <<world, files_channel, keep_going, output_channel, wakeups, arg,
                 heap, disk, envVars, dirVars>>

\* process_arg, the check of keep_going after the probe, then the decision:
\* drop the item, pass the input through, or go on to render it
CheckEmitOn(w, going) ==
  /\ pc[w] = "check_emit"
  /\ LET i == arg[w]
         d0 == [imgd[w] EXCEPT !.canvas_width = cfg[w].c.Width,
                               !.canvas_height = cfg[w].c.Height,
                               !.format_uppercase = ToUpper(cfg[w].format)]
         d == set_basic_metadata(d0, screen_size, place, opts.ScaleUp,
                                 remove_alpha, flip, flop)
         m == make_output_from_input(d, f[w])
         seen == IF keep_going THEN "go" ELSE "stop"
     IN IF ~going
        THEN Return(w, [hist EXCEPT ![i].load2 = seen])
        ELSE /\ hist' = [hist EXCEPT ![i].load2 = seen]
             /\ IF ~d.needs_conversion
                THEN /\ imgd' = [imgd EXCEPT ![w] = m.imgd]
                     /\ f' = [f EXCEPT ![w] = m.f]
                     /\ out' = [out EXCEPT ![w] = m.imgd]
                     /\ pc' = [pc EXCEPT ![w] = "send"]
                ELSE /\ imgd' = [imgd EXCEPT ![w] = d]
                     /\ pc' = [pc EXCEPT ![w] = "render"]
                     /\ UNCHANGED <<f, out>>
             /\ UNCHANGED <<arg, cfg, heap, disk>>
  /\ UNCHANGED <<world, files_channel, keep_going, output_channel, wakeups, envVars, dirVars>>

\* CheckEmit without the check of keep_going
CheckEmitUnchecked(w) == CheckEmitOn(w, TRUE)

CheckEmit(w) == CheckEmitOn(w, keep_going)

\* Render reporting the renderer's failure in the image_data it was given
RenderLeak(w) ==
  /\ pc[w] = "render"
  /\ LET i == arg[w]
         r == render_image_with_go(imgd[w], f[w], world[i], i, disk)
     IN /\ f' = [f EXCEPT ![w] = r.f]
        /\ disk' = r.disk
        /\ imgd' = [imgd EXCEPT ![w] = r.imgd]
        /\ hist' = [hist EXCEPT ![i].rendered = TRUE]
        /\ out' = [out EXCEPT ![w] =
                     IF r.err # NilErr
                     THEN [r.imgd EXCEPT !.err =
                             ErrorF("Could not render image to RGB", r.err)]
                     ELSE r.imgd]
        /\ pc' = [pc EXCEPT ![w] = "send"]
  /\ UNCHANGED <<world, files_channel, keep_going, output_channel, wakeups, arg,
                 cfg, heap, envVars, dirVars>>

\* process_arg, the call of the renderer and the report of its failure
Render(w) ==
  /\ pc[w] = "render"
  /\ LET i == arg[w]
         r == render_image_with_go(imgd[w], f[w], world[i], i, disk)
     IN /\ f' = [f EXCEPT ![w] = r.f]
        /\ disk' = r.disk
        /\ imgd' = [imgd EXCEPT ![w] = r.imgd]
        /\ hist' = [hist EXCEPT ![i].rendered = TRUE]
        /\ out' = [out EXCEPT ![w] =
                     IF r.err # NilErr
                     THEN report_error(world[i].arg.value,
                                       "Could not render image to RGB", r.err)
                     ELSE r.imgd]
        /\ pc' = [pc EXCEPT ![w] = "send"]
  /\ UNCHANGED <<world, files_channel, keep_going, output_channel, wakeups, arg,
                 cfg, heap, envVars, dirVars>>

\* send_output, the channel send: blocks while the channel is full
Send(w) ==
  /\ pc[w] = "send"
  /\ Len(output_channel) < ChanCap
  /\ output_channel' = Append(output_channel, out[w])
  /\ hist' = [hist EXCEPT ![arg[w]].sent = Append(@, out[w]),
                          ![arg[w]].at_send = keep_going]
  /\ pc' = [pc EXCEPT ![w] = "wake"]
  /\ UNCHANGED <<world, files_channel, keep_going, wakeups, arg, f, imgd, out, cfg,
                 heap, disk, envVars, dirVars>>

\* Wake without the wake signal when the result is an error
WakeLost(w) ==
  /\ pc[w] = "wake"
  /\ wakeups' = IF out[w].err # NilErr THEN wakeups ELSE wakeups + 1
  /\ Return(w, hist)
  /\ UNCHANGED <<world, files_channel, keep_going, output_channel, envVars, dirVars>>

\* send_output, lp.WakeupMainThread(), and the return of process_arg after it
Wake(w) ==
  /\ pc[w] = "wake"
  /\ wakeups' = wakeups + 1
  /\ Return(w, hist)
  /\ UNCHANGED <<world, files_channel, keep_going, output_channel, envVars, dirVars>>

\* the coordinator clears keep_going, once
Cancel ==
  /\ keep_going
  /\ keep_going' = FALSE
  /\ UNCHANGED <<world, files_channel, output_channel, wakeups, pc, arg, f, imgd,
                 out, cfg, heap, disk, hist, envVars, dirVars>>

\* the consumer takes the next result off output_channel
Receive ==
  /\ output_channel # << >>
  /\ output_channel' = Tail(output_channel)
  /\ UNCHANGED <<world, files_channel, keep_going, wakeups, pc, arg, f, imgd, out,
                 cfg, heap, disk, hist, envVars, dirVars>>

Next ==
  \/ \E w \in Workers : Select(w)
  \/ \E w \in Workers : CheckClaim(w)
  \/ \E w \in Workers : Fetch(w)
  \/ \E w \in Workers : Probe(w)
  \/ \E w \in Workers : CheckEmit(w)
  \/ \E w \in Workers : Render(w)
  \/ \E w \in Workers : Send(w)
  \/ \E w \in Workers : Wake(w)
  \/ Cancel
  \/ Receive

Spec == Init /\ [][Next]_vars


\* lp.WakeupMainThread() returns: a worker that has sent goes on to wake
FairSpec == Spec /\ \A w \in Workers : WF_vars(Wake(w))

\* one step of the goroutine w
WorkerStep(w) ==
  \/ Select(w) \/ CheckClaim(w) \/ Fetch(w) \/ Probe(w)
  \/ CheckEmit(w) \/ Render(w) \/ Send(w) \/ Wake(w)

\* a step of some worker, or of the consumer
PoolStep == (\E w \in Workers : WorkerStep(w)) \/ Receive

\* the calls the workers make return and the consumer keeps receiving: while
\* a worker or the consumer can take a step, one of them does
LiveSpec == Spec /\ WF_vars(PoolStep)

\* process_arg run alone with keep_going set throughout: the image_data it sends
ProcessArgOutcome(a, i) ==
  LET v == a.arg.value
      ft == Fetched(a, i)
      dc == DecodeConfig(a.content)
      d0 == [ZeroImageData EXCEPT !.source_name = v,
                                  !.canvas_width = dc.c.Width,
                                  !.canvas_height = dc.c.Height,
                                  !.format_uppercase = ToUpper(dc.format)]
      d == set_basic_metadata(d0, screen_size, place, opts.ScaleUp,
                              remove_alpha, flip, flop)
      fi == [file |-> ft.file, name_to_unlink |-> EmptyString]
      r == render_image_with_go(d, fi, a, i, {})
  IN IF ~ft.ok THEN ft.out
     ELSE IF dc.err # NilErr THEN report_error(v, "Unknown image format", dc.err)
     ELSE IF ~d.needs_conversion THEN make_output_from_input(d, fi).imgd
     ELSE IF r.err # NilErr THEN report_error(v, "Could not render image to RGB", r.err)
     ELSE r.imgd

(* ------------------------------ the claims ---------------------------- *)
\* a worker has finished with item i: process_arg returned, or run_worker
\* dropped it at its check of keep_going
Finished(i) == hist[i].returned \/ hist[i].load1 = "stop"

RECURSIVE SentUpTo(_)
SentUpTo(n) == IF n = 0 THEN 0 ELSE Len(hist[n].sent) + SentUpTo(n - 1)
\* the sends on output_channel that have completed
Pushes == SentUpTo(NumItems)

\* C1, as claimed: every item is claimed at most once and yields at most one
\* result; an item a worker has finished with has exactly one result if
\* keep_going was set when it was claimed, and none if it was not.
C1_AsClaimed ==
  \A i \in Items :
    /\ hist[i].claims <= 1
    /\ Len(hist[i].sent) <= 1
    /\ Finished(i) => Len(hist[i].sent) = (IF hist[i].at_claim THEN 1 ELSE 0)

\* C1, amended: every item is claimed at most once and yields at most one
\* result; an item claimed with keep_going cleared yields none; an item a
\* worker has finished with has no result if the worker found keep_going
\* cleared at one of its two checks for the item, and exactly one otherwise.
C1_OneResultUnlessDropped ==
  \A i \in Items :
    /\ hist[i].claims <= 1
    /\ Len(hist[i].sent) <= 1
    /\ ~hist[i].at_claim => hist[i].sent = << >>
    /\ Finished(i) =>
         Len(hist[i].sent) =
           (IF hist[i].load1 = "stop" \/ hist[i].load2 = "stop" THEN 0 ELSE 1)

C1_Witness ==
  \E i, j \in Items :
    /\ Finished(i) /\ Len(hist[i].sent) = 1
    /\ Finished(j) /\ hist[j].at_claim /\ hist[j].load2 = "stop"
    /\ hist[j].sent = << >>

\* C2, as claimed: no result is pushed for an item when keep_going is cleared
\* after the item was claimed and before its result is sent.
C2_AsClaimed ==
  \A i \in Items :
    hist[i].at_claim /\ hist[i].sent # << >> => hist[i].at_send

\* C2, amended: a worker that finds keep_going cleared at its check after a
\* successful probe returns from process_arg without rendering the item and
\* without pushing any result for it, and releases the opened input.
C2_DropAtCheck ==
  \A i \in Items :
    hist[i].load2 = "stop" =>
      /\ hist[i].returned
      /\ hist[i].sent = << >>
      /\ ~hist[i].rendered
      /\ hist[i].closes = hist[i].opens

C2_Witness ==
  \E i \in Items :
    /\ hist[i].at_claim /\ hist[i].load1 = "go" /\ hist[i].probed
    /\ hist[i].load2 = "stop"

\* C3: an opened_input is opened at most once per item; once process_arg has
\* returned its handle has been closed exactly once and no worker still holds
\* it, a temporary path it owned has been removed exactly once and is gone
\* from the disk; nothing is ever closed or removed twice.
C3_ReleasedOnce ==
  /\ \A i \in Items :
       /\ hist[i].opens <= 1
       /\ hist[i].closes <= hist[i].opens
       /\ hist[i].removes <= 1
       /\ hist[i].returned =>
            /\ hist[i].closes = hist[i].opens
            /\ hist[i].removes =
                 (IF hist[i].rendered /\ world[i].spill THEN 1 ELSE 0)
            /\ TempPath("in", i) \notin disk
  /\ \A w \in Workers :
       pc[w] \in {"select", "done"} => f[w] = ZeroInput

C3_Witness ==
  \E i, j \in Items :
    /\ hist[i].returned /\ hist[i].opens = 1 /\ hist[i].closes = 1
    /\ hist[i].removes = 1 /\ hist[i].sent # << >>
    /\ hist[j].returned /\ hist[j].opens = 1 /\ hist[j].closes = 1
    /\ hist[j].sent # << >> /\ hist[j].sent[1].err # NilErr

\* C4: a worker whose process_arg has sent its result, an error included,
\* goes back to the select; a worker stops only on an empty queue or with
\* keep_going cleared; and when keep_going was never cleared and all workers
\* have stopped, every item has exactly the one result process_arg gives for
\* it alone, whatever became of the other items.
C4_FailureIsPerItem ==
  /\ [][\A w \in Workers :
          /\ pc[w] = "wake" /\ pc'[w] # "wake" => pc'[w] = "select"
          /\ pc[w] # "done" /\ pc'[w] = "done" =>
               files_channel = << >> \/ ~keep_going]_vars
  /\ [](keep_going /\ (\A w \in Workers : pc[w] = "done") =>
          \A i \in Items : hist[i].sent = <<ProcessArgOutcome(world[i], i)>>)

C4_Witness ==
  /\ keep_going
  /\ \A w \in Workers : pc[w] = "done"
  /\ \E i, j \in Items :
       /\ i < j
       /\ hist[i].sent # << >> /\ hist[i].sent[1].err # NilErr
       /\ hist[j].sent # << >> /\ hist[j].sent[1].err = NilErr

\* C5: the wake signals never outnumber the completed pushes, the pushes
\* still owed a wake signal are those of the workers between their send and
\* their wake, and every completed push is eventually followed by its wake:
\* whenever pushes are owed a wake, later none is.
C5_WakePerPush ==
  /\ [](/\ wakeups <= Pushes
        /\ Pushes - wakeups = Cardinality({w \in Workers : pc[w] = "wake"}))
  /\ (Pushes > wakeups) ~> (Pushes = wakeups)

C5_Witness ==
  /\ wakeups >= 2
  /\ wakeups = Pushes
  /\ \E i, j \in Items :
       /\ hist[i].sent # << >> /\ hist[i].sent[1].err # NilErr
       /\ hist[j].sent # << >> /\ hist[j].sent[1].err = NilErr


\* item i is read from a file the caller named, not from memory
FileBacked(a) == ~a.arg.is_http_url /\ a.arg.value # EmptyString

\* the probed image of answer a needs no conversion: it is a PNG that fits
\* the box it is evaluated against, and no flag asks for a conversion
PassThroughCase(a, i) ==
  LET dc == DecodeConfig(a.content)
      d0 == [ZeroImageData EXCEPT !.canvas_width = dc.c.Width,
                                  !.canvas_height = dc.c.Height]
      box == set_basic_metadata(d0, screen_size, place, opts.ScaleUp,
                                remove_alpha, flip, flop)
  IN /\ Fetched(a, i).ok
     /\ dc.err = NilErr
     /\ ToUpper(dc.format) = "PNG"
     /\ dc.c.Width <= box.available_width
     /\ dc.c.Height <= box.available_height
     /\ ~opts.ScaleUp /\ ~remove_alpha /\ ~flip /\ ~flop

\* C6: the result sent for a PNG that fits its box, with no scale-up,
\* alpha removal, flip or flop asked for, has no error and exactly one frame,
\* of the canvas's width and height, which is the input unchanged: the bytes
\* of the in-memory source, or the path of the file, which is not temporary
\* and still exists; and this stays so after the source is released.
C6_PassThrough ==
  \A i \in Items :
    PassThroughCase(world[i], i) =>
      /\ hist[i].returned /\ hist[i].load2 = "go" => Len(hist[i].sent) = 1
      /\ \A k \in 1..Len(hist[i].sent) :
           LET r == hist[i].sent[k]
               dc == DecodeConfig(world[i].content)
           IN /\ r.err = NilErr
              /\ ~r.needs_conversion
              /\ Len(r.frames) = 1
              /\ r.canvas_width = dc.c.Width /\ r.canvas_height = dc.c.Height
              /\ r.frames[1].width = r.canvas_width
              /\ r.frames[1].height = r.canvas_height
              /\ IF FileBacked(world[i])
                 THEN /\ r.frames[1].filename = world[i].arg.value
                      /\ r.frames[1].in_memory_bytes = NilSlice
                      /\ ~r.frames[1].filename_is_temporary
                      /\ r.frames[1].filename \in disk
                 ELSE /\ r.frames[1].filename = EmptyString
                      /\ SliceBytes(heap, r.frames[1].in_memory_bytes)
                           = world[i].content

C6_Witness ==
  \E i, j \in Items :
    /\ PassThroughCase(world[i], i) /\ FileBacked(world[i])
    /\ hist[i].returned /\ hist[i].closes = 1 /\ Len(hist[i].sent) = 1
    /\ PassThroughCase(world[j], j) /\ ~FileBacked(world[j])
    /\ hist[j].returned /\ hist[j].closes = 1 /\ Len(hist[j].sent) = 1

\* a status outside 200..299
NonSuccess(status) == status < 200 \/ status > 299

\* the GET of a remote item fails: no response, or one with a non-success status
GetFails(a) == a.arg.is_http_url /\ (a.get_err \/ NonSuccess(a.status))

\* C9: a remote item whose GET fails is never opened, probed or rendered; any
\* result sent for it has an error whose message begins with "Could not get",
\* the URL as source_name and no frame; and once process_arg has returned for
\* it exactly one such result has been sent.
C9_GetFailure ==
  \A i \in Items :
    GetFails(world[i]) =>
      /\ hist[i].opens = 0 /\ ~hist[i].probed /\ ~hist[i].rendered
      /\ Len(hist[i].sent) <= 1
      /\ hist[i].returned => Len(hist[i].sent) = 1
      /\ \A k \in 1..Len(hist[i].sent) :
           LET r == hist[i].sent[k]
           IN /\ r.err # NilErr
              /\ Head(r.err) = "Could not get"
              /\ r.source_name = world[i].arg.value
              /\ r.frames = << >>

C9_Witness ==
  \E i, j \in Items :
    /\ world[i].arg.is_http_url /\ ~world[i].get_err /\ world[i].status = 404
    /\ hist[i].returned /\ Len(hist[i].sent) = 1
    /\ world[j].arg.is_http_url /\ world[j].get_err
    /\ hist[j].returned /\ Len(hist[j].sent) = 1


(* ------------------- the conversion decision on its own --------------- *)
\* the display geometries, placements and probed images the decision is
\* applied to
MetaScreens ==
  {[WidthPx |-> wp, CellWidth |-> cw, CellHeight |-> ch] :
     wp \in {4, 8}, cw \in {1, 2}, ch \in {1, 2}}
MetaPlaces ==
  {NoPlace} \cup {[set |-> TRUE, width |-> pw, height |-> ph] :
                    pw \in {1, 3}, ph \in {1, 3}}
MetaWidths == {1, 4, 5, 9}
MetaHeights == {1, 3, 4, 10, 11, 21}
MetaFormats == {"png", "jpeg"}

\* the one goroutine of these runs
Prober == 1

MetaInit ==
  /\ world = << >>
  /\ files_channel = << >>
  /\ keep_going = TRUE
  /\ output_channel = << >>
  /\ wakeups = 0
  /\ pc = [w \in {Prober} |-> "probed"]
  /\ arg = [w \in {Prober} |-> 0]
  /\ f = [w \in {Prober} |-> ZeroInput]
  /\ \E cw \in MetaWidths, ch \in MetaHeights, fmt \in MetaFormats :
       /\ cfg = [w \in {Prober} |->
                   [c |-> [Width |-> cw, Height |-> ch], format |-> fmt,
                    deferred |-> TRUE]]
  /\ imgd = [w \in {Prober} |-> ZeroImageData]
  /\ out = [w \in {Prober} |-> ZeroImageData]
  /\ heap = << >>
  /\ disk = {}
  /\ screen_size \in MetaScreens
  /\ place \in MetaPlaces
  /\ opts \in {[Stdin |-> "detect", ScaleUp |-> su] : su \in BOOLEAN}
  /\ remove_alpha \in BOOLEAN
  /\ flip \in BOOLEAN
  /\ flop \in BOOLEAN
  /\ hist = << >>
  /\ args = << >>
  /\ is_terminal = TRUE
  /\ resolved = NotResolved
  /\ outcomes = << >>

\* process_arg, from the probed size and format to the decision
Decide ==
  /\ pc[Prober] = "probed"
  /\ LET d0 == [imgd[Prober] EXCEPT
                  !.canvas_width = cfg[Prober].c.Width,
                  !.canvas_height = cfg[Prober].c.Height,
                  !.format_uppercase = ToUpper(cfg[Prober].format)]
     IN imgd' = [imgd EXCEPT ![Prober] =
                   set_basic_metadata(d0, screen_size, place, opts.ScaleUp,
                                      remove_alpha, flip, flop)]
  /\ pc' = [pc EXCEPT ![Prober] = "decided"]
  /\ UNCHANGED <<world, files_channel, keep_going, output_channel, wakeups, arg,
                 f, out, cfg, heap, disk, hist, envVars, dirVars>>

MetaNext == Decide

SpecMeta == MetaInit /\ [][MetaNext]_vars

\* the decision has been taken for the probed image
Decided == pc[Prober] = "decided"

\* C7: needs_scaling is (canvas wider than the available width, or taller
\* than the available height, or scale-up asked for), needs_conversion is
\* (needs_scaling, or alpha removal, flip or flop asked for, or a format
\* other than "PNG"), and so needs_scaling implies needs_conversion.
C7_Decision ==
  Decided =>
    LET d == imgd[Prober]
    IN /\ d.needs_scaling <=>
            \/ d.canvas_width > d.available_width
            \/ d.canvas_height > d.available_height
            \/ opts.ScaleUp
       /\ d.needs_conversion <=>
            \/ d.needs_scaling
            \/ remove_alpha \/ flip \/ flop
            \/ d.format_uppercase # "PNG"
       /\ d.needs_scaling => d.needs_conversion
       /\ d.canvas_width = cfg[Prober].c.Width
       /\ d.canvas_height = cfg[Prober].c.Height

C7_Witness ==
  /\ Decided
  /\ imgd[Prober].canvas_width = imgd[Prober].available_width
  /\ ~imgd[Prober].needs_scaling
  /\ imgd[Prober].needs_conversion
  /\ imgd[Prober].format_uppercase = "PNG"
  /\ flop /\ ~flip /\ ~remove_alpha

\* the height of ten rows of the display, in pixels
TenRows == 10 * screen_size.CellHeight

\* C8, as claimed: with a placement the budget is its columns and rows times
\* the cell's pixel width and height; without one it is the display's pixel
\* width and the height of ten display rows, so that an image taller than
\* ten rows needs scaling.
C8_AsClaimed ==
  Decided =>
    LET d == imgd[Prober]
    IN IF place.set
       THEN /\ d.available_width = place.width * screen_size.CellWidth
            /\ d.available_height = place.height * screen_size.CellHeight
       ELSE /\ d.available_width = screen_size.WidthPx
            /\ d.available_height = TenRows
            /\ d.canvas_height > TenRows => d.needs_scaling

\* C8, amended: with a placement the budget is its columns and rows times the
\* cell's pixel width and height; without one it is the display's pixel width
\* and ten times the image's own height, so that without a placement the
\* height never asks for scaling: needs_scaling is then (canvas wider than
\* the display, or scale-up asked for).
C8_Budget ==
  Decided =>
    LET d == imgd[Prober]
    IN IF place.set
       THEN /\ d.available_width = place.width * screen_size.CellWidth
            /\ d.available_height = place.height * screen_size.CellHeight
       ELSE /\ d.available_width = screen_size.WidthPx
            /\ d.available_height = 10 * d.canvas_height
            /\ d.needs_scaling <=>
                 (d.canvas_width > screen_size.WidthPx \/ opts.ScaleUp)

C8_Witness ==
  /\ Decided
  /\ ~place.set
  /\ imgd[Prober].canvas_height > TenRows
  /\ ~imgd[Prober].needs_scaling
  /\ ~imgd[Prober].needs_conversion



(* --------------------------- the resolver ----------------------------- *)
\* how many arguments the caller gives at most
MaxArgs == 2

\* The filesystem of the resolver's runs. /d holds three image files and two
\* others, one level down for two of them; /u holds a directory that cannot
\* be read; /v is removed between its stat and its walk.
FsChildren(path) ==
  CASE path = <<"d">> -> <<"a.png", "b.txt", "c.jpg", "e">>
    [] path = <<"d", "e">> -> <<"f.jpeg", "g.md">>
    [] path = <<"u">> -> <<"a.png", "k", "z.png">>
    [] OTHER -> << >>
FsDirs == {<<"d">>, <<"d", "e">>, <<"u">>, <<"u", "k">>, <<"v">>}
FsUnreadable == {<<"u", "k">>}
FsVanishing == {<<"v">>}
FsTopFiles == {<<"t.txt">>, <<"x.png">>, <<"raw">>, <<"n.png">>}

RECURSIVE FsFilesUnder(_)
\* the regular files at or below a path
FsFilesUnder(path) ==
  IF path \notin FsDirs THEN {path}
  ELSE UNION {FsFilesUnder(Append(path, FsChildren(path)[k])) :
                k \in 1..Len(FsChildren(path))}
FsFiles == FsTopFiles \cup FsFilesUnder(<<"d">>) \cup FsFilesUnder(<<"u">>)

\* os.Stat
Stat(path) ==
  IF path \in FsDirs THEN [err |-> NilErr, IsDir |-> TRUE]
  ELSE IF path \in FsFiles THEN [err |-> NilErr, IsDir |-> FALSE]
  ELSE [err |-> <<"no such file or directory">>, IsDir |-> FALSE]

\* the bytes of a regular file: what its name promises, except for n.png,
\* which is text, and raw, which is a PNG
FsContent(path) ==
  LET name == path[Len(path)]
  IN CASE name \in {"a.png", "x.png", "z.png", "raw"} -> SmallPNG
       [] name \in {"c.jpg", "f.jpeg"} -> SmallJPEG
       [] OTHER -> TextBytes

\* utils.GuessMimeType: by the extension of the path's last component
GuessMimeType(path) ==
  LET name == path[Len(path)]
  IN CASE name \in {"a.png", "x.png", "z.png", "n.png"} -> <<"image", "/", "png">>
       [] name \in {"c.jpg", "f.jpeg"} -> <<"image", "/", "jpeg">>
       [] name \in {"b.txt", "t.txt"} -> <<"text", "/", "plain">>
       [] name = "g.md" -> <<"text", "/", "markdown">>
       [] OTHER -> EmptyString

\* strings.HasPrefix(s, prefix), both as sequences of pieces
HasPrefix(str, prefix) ==
  Len(str) >= Len(prefix) /\ SubSeq(str, 1, Len(prefix)) = prefix

\* is_http_url
is_http_url(a) == HasPrefix(a, <<"https://">>) \/ HasPrefix(a, <<"http://">>)

\* url.Parse of a file:// URL: fails on an invalid escape, else gives the path
UrlParse(a) ==
  IF \E k \in 1..Len(a) : a[k] = "%zz"
  THEN [err |-> <<"invalid URL escape">>, Path |-> EmptyString]
  ELSE [err |-> NilErr, Path |-> Tail(a)]

\* &fs.PathError{Op, Path, Err}
PathError(op, path, err) == [Op |-> op, Path |-> path, Err |-> err]

\* WalkFn taking every file, whatever its MIME type
WalkFnUnfiltered(st, dir, path, has_d, is_dir, walk_err) ==
  IF walk_err # NilErr
  THEN [st |-> IF ~has_d
               THEN [st EXCEPT !.err = PathError("Stat", dir, walk_err)]
               ELSE st,
        ret |-> walk_err]
  ELSE IF ~is_dir
  THEN [st |-> [st EXCEPT !.results = Append(@, FileArg(dir, path))],
        ret |-> NilErr]
  ELSE [st |-> st, ret |-> NilErr]

\* the function process_dirs hands to filepath.WalkDir, called with a path,
\* whether a DirEntry came with it, whether that is a directory, and the
\* walk's error: st holds results and the err of the enclosing block
WalkFn(st, dir, path, has_d, is_dir, walk_err) ==
  IF walk_err # NilErr
  THEN [st |-> IF ~has_d
               THEN [st EXCEPT !.err = PathError("Stat", dir, walk_err)]
               ELSE st,
        ret |-> walk_err]
  ELSE IF ~is_dir /\ HasPrefix(GuessMimeType(path), <<"image", "/">>)
  THEN [st |-> [st EXCEPT !.results = Append(@, FileArg(dir, path))],
        ret |-> NilErr]
  ELSE [st |-> st, ret |-> NilErr]

RECURSIVE walkDir(_, _, _)
RECURSIVE walkEntries(_, _, _, _)
\* filepath.walkDir: the function on the path, then, for a directory, on
\* each entry in the order of their names; an error returned stops the walk
walkDir(st, dir, path) ==
  LET is_dir == path \in FsDirs
      first == WalkFn(st, dir, path, TRUE, is_dir, NilErr)
  IN IF first.ret # NilErr \/ ~is_dir THEN first
     ELSE IF path \in FsUnreadable
     THEN WalkFn(first.st, dir, path, TRUE, TRUE, <<"permission denied">>)
     ELSE walkEntries(first.st, dir, path, 1)

walkEntries(st, dir, path, k) ==
  IF k > Len(FsChildren(path)) THEN [st |-> st, ret |-> NilErr]
  ELSE LET r == walkDir(st, dir, Append(path, FsChildren(path)[k]))
       IN IF r.ret # NilErr THEN r
          ELSE walkEntries(r.st, dir, path, k + 1)

\* filepath.WalkDir
WalkDir(st, root) ==
  IF root \in FsVanishing
  THEN WalkFn(st, root, root, FALSE, FALSE, <<"no such file or directory">>)
  ELSE walkDir(st, root, root)

\* ResolveArg returning what it has found so far when the stat fails
ResolveArgPartial(results, a) ==
  IF a = EmptyString THEN [results |-> results, err |-> NilErr]
  ELSE IF is_http_url(a)
  THEN [results |-> Append(results, HttpArg(a)), err |-> NilErr]
  ELSE LET u == IF HasPrefix(a, <<"file://">>) THEN UrlParse(a)
                ELSE [err |-> NilErr, Path |-> a]
           s == Stat(u.Path)
       IN IF u.err # NilErr
          THEN [results |-> << >>, err |-> PathError("Parse", a, u.err)]
          ELSE IF s.err # NilErr
          THEN [results |-> results, err |-> PathError("Stat", u.Path, s.err)]
          ELSE IF s.IsDir
          THEN [results |-> WalkDir([results |-> results, err |-> NilErr],
                                    u.Path).st.results,
                err |-> NilErr]
          ELSE [results |-> Append(results, FileArg(u.Path, u.Path)),
                err |-> NilErr]

\* process_dirs, one argument: the results so far and whether it returned
ResolveArg(results, a) ==
  IF a = EmptyString THEN [results |-> results, err |-> NilErr]
  ELSE IF is_http_url(a)
  THEN [results |-> Append(results, HttpArg(a)), err |-> NilErr]
  ELSE LET u == IF HasPrefix(a, <<"file://">>) THEN UrlParse(a)
                ELSE [err |-> NilErr, Path |-> a]
           s == Stat(u.Path)
       IN IF u.err # NilErr
          THEN [results |-> << >>, err |-> PathError("Parse", a, u.err)]
          ELSE IF s.err # NilErr
          THEN [results |-> << >>, err |-> PathError("Stat", u.Path, s.err)]
          ELSE IF s.IsDir
          THEN [results |-> WalkDir([results |-> results, err |-> NilErr],
                                    u.Path).st.results,
                err |-> NilErr]
          ELSE [results |-> Append(results, FileArg(u.Path, u.Path)),
                err |-> NilErr]

RECURSIVE ResolveFrom(_, _, _)
\* process_dirs, the loop over the arguments from the k-th on
ResolveFrom(results, as, k) ==
  IF k > Len(as) THEN [results |-> results, err |-> NilErr]
  ELSE LET r == ResolveArg(results, as[k])
       IN IF r.err # NilErr THEN r ELSE ResolveFrom(r.results, as, k + 1)

\* process_dirs taking standard input whenever it is not a terminal
process_dirs_detect(as, stdin_opt, terminal) ==
  ResolveFrom(IF stdin_opt = "yes" \/ ~terminal
              THEN <<StdinArg>> ELSE << >>,
              as, 1)

\* process_dirs
process_dirs(as, stdin_opt, terminal) ==
  ResolveFrom(IF stdin_opt # "no" /\ (stdin_opt = "yes" \/ ~terminal)
              THEN <<StdinArg>> ELSE << >>,
              as, 1)

\* the arguments the caller chooses from
ArgChoices ==
  {EmptyString, <<"http://", "h", "a.png">>, <<"file://", "x.png">>,
   <<"file://", "%zz">>, <<"file://">>, <<"file://", "d">>, <<"d">>, <<"u">>, <<"v">>,
   <<"t.txt">>, <<"x.png">>, <<"raw">>, <<"n.png">>, <<"missing">>}

\* what the outside world answers for a resolved input_arg
AnswerFor(ia) ==
  IF ia.is_http_url \/ ia.value = EmptyString
  THEN Answer(ia, FALSE, StatusOK, FALSE, FALSE, SmallPNG, FALSE, FALSE)
  ELSE Answer(ia, FALSE, 0, FALSE, FALSE, FsContent(ia.value), FALSE, FALSE)

DirsInit ==
  /\ world = << >>
  /\ files_channel = << >>
  /\ keep_going = TRUE
  /\ output_channel = << >>
  /\ wakeups = 0
  /\ pc = << >>
  /\ arg = << >>
  /\ f = << >>
  /\ imgd = << >>
  /\ out = << >>
  /\ cfg = << >>
  /\ heap = << >>
  /\ disk = FsFiles
  /\ screen_size = PoolScreen
  /\ place = NoPlace
  /\ opts \in {[Stdin |-> sp, ScaleUp |-> FALSE] : sp \in {"yes", "no", "detect"}}
  /\ remove_alpha = FALSE
  /\ flip = FALSE
  /\ flop = FALSE
  /\ hist = << >>
  /\ args \in UNION {[1..n -> ArgChoices] : n \in 0..MaxArgs}
  /\ is_terminal \in BOOLEAN
  /\ resolved = NotResolved
  /\ outcomes = << >>

\* the caller calls process_dirs
Resolve ==
  /\ ~resolved.done
  /\ LET r == process_dirs(args, opts.Stdin, is_terminal)
     IN resolved' = [done |-> TRUE, results |-> r.results, err |-> r.err]
  /\ UNCHANGED <<poolVars, envVars, args, is_terminal, outcomes>>

\* process_arg runs on the next resolved item
ProcessResolved ==
  /\ resolved.done
  /\ resolved.err = NilErr
  /\ Len(outcomes) < Len(resolved.results)
  /\ LET k == Len(outcomes) + 1
     IN outcomes' = Append(outcomes,
                           ProcessArgOutcome(AnswerFor(resolved.results[k]), k))
  /\ UNCHANGED <<poolVars, envVars, args, is_terminal, resolved>>

DirsNext == Resolve \/ ProcessResolved

SpecDirs == DirsInit /\ [][DirsNext]_vars


\* the local path an argument names: the path of a file:// URL, else itself
LocalPath(a) == IF HasPrefix(a, <<"file://">>) THEN Tail(a) ELSE a

RECURSIVE Reached(_)
RECURSIVE ReachedFrom(_, _)
\* the regular files under a path that a walk reaches, in its order, and
\* whether the walk was stopped by an error
Reached(path) ==
  IF path \in FsVanishing \/ path \in FsUnreadable
  THEN [files |-> << >>, stopped |-> TRUE]
  ELSE IF path \notin FsDirs THEN [files |-> <<path>>, stopped |-> FALSE]
  ELSE ReachedFrom(path, 1)

ReachedFrom(path, k) ==
  IF k > Len(FsChildren(path)) THEN [files |-> << >>, stopped |-> FALSE]
  ELSE LET r == Reached(Append(path, FsChildren(path)[k]))
           rest == ReachedFrom(path, k + 1)
       IN IF r.stopped THEN r
          ELSE [files |-> r.files \o rest.files, stopped |-> rest.stopped]

\* the guessed MIME type of a path begins with image/
ImageByName(path) == HasPrefix(GuessMimeType(path), <<"image", "/">>)

\* the items C10 expects of one argument that names a local path
ExpectedOf(a) ==
  IF a = EmptyString \/ is_http_url(a) THEN << >>
  ELSE LET p == LocalPath(a)
           found == SelectSeq(Reached(p).files, ImageByName)
       IN IF p \in FsDirs
          THEN [k \in 1..Len(found) |-> FileArg(p, found[k])]
          ELSE <<FileArg(p, p)>>

RECURSIVE ExpectedFrom(_, _)
ExpectedFrom(as, k) ==
  IF k > Len(as) THEN << >> ELSE ExpectedOf(as[k]) \o ExpectedFrom(as, k + 1)

\* a resolved item that names a local path
IsLocalItem(ia) == ~ia.is_http_url /\ ia.value # EmptyString

\* C10: when process_dirs succeeds, the items it gives for local paths are,
\* argument by argument in the arguments' order: for a directory, one item
\* per regular file the walk reaches under it whose guessed MIME type begins
\* with image/, in walk order, with arg the directory's path and value the
\* file's path; for any other path, one item whatever its MIME type. And the
\* result of an item named on its own whose bytes are no image is the error
\* "Unknown image format" of the pipeline, with no resolution error.
C10_MimeFilter ==
  resolved.done /\ resolved.err = NilErr =>
    /\ SelectSeq(resolved.results, IsLocalItem) = ExpectedFrom(args, 1)
    /\ \A k \in 1..Len(outcomes) :
         LET ia == resolved.results[k]
         IN IsLocalItem(ia) /\ ia.arg = ia.value
            /\ DecodeConfig(FsContent(ia.value)).err # NilErr
            => /\ outcomes[k].err # NilErr
               /\ Head(outcomes[k].err) = "Unknown image format"
               /\ outcomes[k].source_name = ia.value
               /\ outcomes[k].frames = << >>

C10_Witness ==
  /\ args = << <<"d">>, <<"t.txt">> >>
  /\ resolved.done /\ resolved.err = NilErr
  /\ resolved.results =
       << FileArg(<<"d">>, <<"d", "a.png">>), FileArg(<<"d">>, <<"d", "c.jpg">>),
          FileArg(<<"d">>, <<"d", "e", "f.jpeg">>),
          FileArg(<<"t.txt">>, <<"t.txt">>) >>
  /\ Len(outcomes) = 4
  /\ outcomes[1].err = NilErr
  /\ Head(outcomes[4].err) = "Unknown image format"

\* the walk of the directory an argument names hands an error to the function
WalkFails(a) ==
  LET p == LocalPath(a)
  IN /\ a # EmptyString /\ ~is_http_url(a)
     /\ ~(HasPrefix(a, <<"file://">>) /\ UrlParse(a).err # NilErr)
     /\ Stat(p).err = NilErr /\ Stat(p).IsDir
     /\ WalkDir([results |-> << >>, err |-> NilErr], p).ret # NilErr

\* C11, as claimed: when the walk of a directory argument hands a walk error
\* to the function, process_dirs returns a non-nil error.
C11_AsClaimed ==
  resolved.done /\ (\E k \in 1..Len(args) : WalkFails(args[k]))
    => resolved.err # NilErr

\* an argument that cannot be resolved: a file:// URL that does not parse,
\* or a path that cannot be stat-ed
BadArg(a) ==
  /\ a # EmptyString /\ ~is_http_url(a)
  /\ \/ HasPrefix(a, <<"file://">>) /\ UrlParse(a).err # NilErr
     \/ Stat(LocalPath(a)).err # NilErr

\* the path error expected for an argument that cannot be resolved
BadArgError(a) ==
  IF HasPrefix(a, <<"file://">>) /\ UrlParse(a).err # NilErr
  THEN PathError("Parse", a, UrlParse(a).err)
  ELSE PathError("Stat", LocalPath(a), Stat(LocalPath(a)).err)

\* C12: process_dirs returns an error exactly when some argument is a
\* file:// URL that does not parse or a path that cannot be stat-ed; the
\* error is then the path error of the first such argument (Parse with the
\* argument, or Stat with the path), no item at all is returned, the standard
\* input item and the items of earlier arguments included, and process_arg
\* runs on no item.
C12_FailFast ==
  resolved.done =>
    LET bad == {k \in 1..Len(args) : BadArg(args[k])}
    IN /\ (bad # {}) <=> (resolved.err # NilErr)
       /\ bad # {} =>
            LET k == CHOOSE b \in bad : \A c \in bad : b <= c
            IN /\ resolved.err = BadArgError(args[k])
               /\ resolved.results = << >>
               /\ outcomes = << >>

C12_Witness ==
  /\ args = << <<"x.png">>, <<"missing">> >>
  /\ opts.Stdin = "yes"
  /\ resolved.done
  /\ resolved.err = PathError("Stat", <<"missing">>, <<"no such file or directory">>)
  /\ resolved.results = << >>

\* standard input is among the sources
StdinWanted == opts.Stdin = "yes" \/ (opts.Stdin # "no" /\ ~is_terminal)

\* the items expected of one argument
ItemsOf(a) ==
  IF a = EmptyString THEN << >>
  ELSE IF is_http_url(a) THEN << [arg |-> a, value |-> a, is_http_url |-> TRUE] >>
  ELSE ExpectedOf(a)

RECURSIVE ItemsFrom(_, _)
ItemsFrom(as, k) ==
  IF k > Len(as) THEN << >> ELSE ItemsOf(as[k]) \o ItemsFrom(as, k + 1)

\* C13: when process_dirs succeeds its results are: first the one item of
\* standard input (arg /dev/stdin, empty value) if opts.Stdin is "yes", or is
\* not "no" while standard input is not a terminal, and no such item
\* otherwise; then, argument by argument in the arguments' order, nothing for
\* an empty argument, one item with arg and value the argument itself for an
\* http:// or https:// argument, and the items of the local path for any
\* other. Every item but that first one has a non-empty value.
C13_Ordered ==
  resolved.done /\ resolved.err = NilErr =>
    /\ resolved.results =
         (IF StdinWanted THEN <<StdinArg>> ELSE << >>) \o ItemsFrom(args, 1)
    /\ \A k \in 1..Len(resolved.results) :
         resolved.results[k].value = EmptyString =>
           /\ k = 1 /\ StdinWanted
           /\ resolved.results[k] = StdinArg

C13_Witness ==
  /\ opts.Stdin = "detect" /\ ~is_terminal
  /\ args = << <<"d">>, <<"http://", "h", "a.png">> >>
  /\ resolved.done /\ resolved.err = NilErr
  /\ Len(resolved.results) = 5
  /\ resolved.results[1] = StdinArg
  /\ resolved.results[2] = FileArg(<<"d">>, <<"d", "a.png">>)
  /\ resolved.results[5] = HttpArg(<<"http://", "h", "a.png">>)

\* the item of standard input: not remote, with an empty value
IsStdinItem(a) == ~a.arg.is_http_url /\ a.arg.value = EmptyString

RECURSIVE ReadsUpTo(_)
ReadsUpTo(n) == IF n = 0 THEN 0 ELSE hist[n].reads + ReadsUpTo(n - 1)
\* the calls of io.ReadAll(os.Stdin) so far
StdinReads == ReadsUpTo(NumItems)

\* no worker has taken an item yet
NoWorkerStarted ==
  /\ \A w \in Workers : pc[w] = "select"
  /\ \A i \in Items : hist[i].claims = 0

\* C14, as claimed: standard input is read only while no worker has started on
\* an item.
C14_AsClaimed == [][StdinReads' > StdinReads => NoWorkerStarted]_vars

\* C14, amended: standard input is read at most once in a run, and not before
\* the workers start: the read is made in process_arg by the worker that took
\* the item of standard input and found keep_going set, as the first step of
\* that item, and has been made exactly once when that worker is past it. No
\* other item reads standard input. The bytes read are referred to by that
\* worker's BytesBuf alone and are never changed afterwards.
C14_ReadByClaimer ==
  /\ [](/\ StdinReads <= 1
        /\ \A i \in Items :
             /\ hist[i].reads > 0 => IsStdinItem(world[i]) /\ hist[i].load1 = "go"
             /\ IsStdinItem(world[i]) /\ hist[i].load1 = "go"
                  /\ ~(\E w \in Workers : arg[w] = i /\ pc[w] = "fetch")
                  => hist[i].reads = 1
        /\ \A w \in Workers :
             f[w].file.data.ptr # 0 => f[w].file.data.ptr = arg[w])
  /\ [][\A i \in Items :
          /\ hist'[i].reads > hist[i].reads =>
               \E w \in Workers : /\ pc[w] = "fetch" /\ arg[w] = i
                                  /\ pc'[w] \in {"probe", "send"}
          /\ hist[i].reads > 0 /\ hist[i].opens > 0 => heap'[i] = heap[i]]_vars

C14_Witness ==
  \E i, j \in Items :
    /\ i # j
    /\ hist[j].returned /\ hist[j].sent # << >>
    /\ IsStdinItem(world[i]) /\ hist[i].reads = 1
    /\ \E w \in Workers : arg[w] = i /\ pc[w] = "probe"
                          /\ SliceBytes(heap, f[w].file.data) = world[i].content

(* ------------------------ the byte source on its own ------------------- *)
\* the longest buffer a Read is given
MaxChunk == 2

\* the streams a BytesBuf is made of, the offsets and the values of whence
\* Seek is called with
BufStreams ==
  {<< >>, <<7>>, <<MagicPNG, 2>>, SmallPNG, TextBytes, <<MagicJPEG, 3, 1, 9>>}
SeekOffsets == {MinInt, -2, -1, 0, 1, 2, MaxInt - 1, MaxInt}
Whences == {SeekStart, SeekCurrent, SeekEnd, 3}

\* no call has been made on the BytesBuf yet
NoCall ==
  [op |-> "none", before |-> NilFile, offset |-> 0, whence |-> 0, n |-> 0,
   ret |-> 0, err |-> NilErr, bytes |-> << >>, eof |-> FALSE]

\* the record of a call of Seek and of a call of Read
SeekCall(before, offset, whence, r) ==
  [NoCall EXCEPT !.op = "Seek", !.before = before, !.offset = offset,
                 !.whence = whence, !.ret = r.ret, !.err = r.err]
ReadCall(before, n, r) ==
  [NoCall EXCEPT !.op = "Read", !.before = before, !.n = n,
                 !.bytes = r.bytes, !.eof = r.eof]

\* the goroutine's opened_input, a BytesBuf over the one backing array
Buf == f[Prober].file

BufInit ==
  /\ world = << >>
  /\ files_channel = << >>
  /\ keep_going = TRUE
  /\ output_channel = << >>
  /\ wakeups = 0
  /\ pc = [w \in {Prober} |-> "opened"]
  /\ arg = [w \in {Prober} |-> 1]
  /\ \E data \in BufStreams :
       /\ heap = <<data>>
       /\ f = [w \in {Prober} |->
                 [file |-> [kind |-> "BytesBuf",
                            data |-> [ptr |-> 1, len |-> Len(data)],
                            name |-> EmptyString, pos |-> 0],
                  name_to_unlink |-> EmptyString]]
       /\ hist = [original |-> data, got |-> << >>, last |-> NoCall]
  /\ cfg = [w \in {Prober} |-> [c |-> ZeroConfig, format |-> "", err |-> NilErr]]
  /\ imgd = [w \in {Prober} |-> ZeroImageData]
  /\ out = [w \in {Prober} |-> ZeroImageData]
  /\ disk = {}
  /\ screen_size = PoolScreen
  /\ place = NoPlace
  /\ opts = PoolOpts
  /\ remove_alpha = FALSE
  /\ flip = FALSE
  /\ flop = FALSE
  /\ args = << >>
  /\ is_terminal = TRUE
  /\ resolved = NotResolved
  /\ outcomes = << >>

\* a call of Seek by the prober, or on the closed BytesBuf
BufSeek ==
  /\ pc[Prober] \in {"opened", "closed"}
  /\ \E offset \in SeekOffsets, whence \in Whences :
       LET r == BytesBufSeek(Buf, offset, whence)
       IN /\ f' = [f EXCEPT ![Prober].file = r.self]
          /\ hist' = [hist EXCEPT !.last = SeekCall(Buf, offset, whence, r)]
  /\ UNCHANGED <<world, files_channel, keep_going, output_channel, wakeups, pc,
                 arg, imgd, out, cfg, heap, disk, envVars, dirVars>>

\* a call of Read by the prober, or on the closed BytesBuf
BufRead ==
  /\ pc[Prober] \in {"opened", "closed"}
  /\ \E n \in 0..MaxChunk :
       LET r == BytesBufRead(Buf, heap, n)
       IN /\ f' = [f EXCEPT ![Prober].file = r.self]
          /\ hist' = [hist EXCEPT !.last = ReadCall(Buf, n, r)]
  /\ UNCHANGED <<world, files_channel, keep_going, output_channel, wakeups, pc,
                 arg, imgd, out, cfg, heap, disk, envVars, dirVars>>

\* process_arg's probe: image.DecodeConfig, then Rewind
BufProbe ==
  /\ pc[Prober] = "opened"
  /\ LET pr == DecodeConfigAndRewind(f[Prober], heap, << >>)
     IN /\ f' = [f EXCEPT ![Prober] = pr.f]
        /\ cfg' = [cfg EXCEPT ![Prober] =
                     [c |-> pr.dc.c, format |-> pr.dc.format, err |-> pr.dc.err]]
        /\ hist' = [hist EXCEPT !.last =
                      SeekCall(pr.probed.file, 0, SeekStart,
                               BytesBufSeek(pr.probed.file, 0, SeekStart))]
  /\ pc' = [pc EXCEPT ![Prober] = "rewound"]
  /\ UNCHANGED <<world, files_channel, keep_going, output_channel, wakeups, arg,
                 imgd, out, heap, disk, envVars, dirVars>>

\* Rewind after the prober's own calls of Read and Seek
BufRewind ==
  /\ pc[Prober] = "opened"
  /\ hist.last.op # "none"
  /\ f' = [f EXCEPT ![Prober] = Rewind(f[Prober])]
  /\ hist' = [hist EXCEPT !.last =
                SeekCall(Buf, 0, SeekStart, BytesBufSeek(Buf, 0, SeekStart))]
  /\ pc' = [pc EXCEPT ![Prober] = "rewound"]
  /\ UNCHANGED <<world, files_channel, keep_going, output_channel, wakeups, arg,
                 imgd, out, cfg, heap, disk, envVars, dirVars>>

\* the next Read of a reader that reads the rewound source to its end
BufDrain ==
  /\ pc[Prober] = "rewound"
  /\ \E n \in 1..MaxChunk :
       LET r == BytesBufRead(Buf, heap, n)
       IN /\ f' = [f EXCEPT ![Prober].file = r.self]
          /\ hist' = [hist EXCEPT !.got = @ \o r.bytes,
                                  !.last = ReadCall(Buf, n, r)]
          /\ pc' = [pc EXCEPT ![Prober] = IF r.eof THEN "eof" ELSE "rewound"]
  /\ UNCHANGED <<world, files_channel, keep_going, output_channel, wakeups, arg,
                 imgd, out, cfg, heap, disk, envVars, dirVars>>

\* a call of Close
BufClose ==
  /\ pc[Prober] \in {"opened", "rewound", "eof"}
  /\ LET r == BytesBufClose(Buf, heap)
     IN /\ f' = [f EXCEPT ![Prober].file = r.self]
        /\ heap' = r.heap
        /\ hist' = [hist EXCEPT !.last = [NoCall EXCEPT !.op = "Close", !.before = Buf]]
  /\ pc' = [pc EXCEPT ![Prober] = "closed"]
  /\ UNCHANGED <<world, files_channel, keep_going, output_channel, wakeups, arg,
                 imgd, out, cfg, disk, envVars, dirVars>>

BufNext == BufSeek \/ BufRead \/ BufProbe \/ BufRewind \/ BufDrain \/ BufClose

SpecBuf == BufInit /\ [][BufNext]_vars

RECURSIVE ReadToEnd(_, _, _)
\* what a reader gets that calls Read with a buffer of n bytes until io.EOF
ReadToEnd(self, hp, n) ==
  LET r == BytesBufRead(self, hp, n)
  IN IF r.eof THEN << >> ELSE r.bytes \o ReadToEnd(r.self, hp, n)

\* C15: once a BytesBuf has been rewound after the prober's calls, be they
\* image.DecodeConfig's (whether it failed or not) or any calls of Read and
\* Seek, its position is 0 and its bytes are the original ones; a reader then
\* gets, in order, exactly the original stream: what it has read so far is
\* the original's prefix up to the position, what reading on to io.EOF with
\* any buffer size adds is the rest, and at io.EOF it has read the whole.
C15_ProbeRewind ==
  pc[Prober] \in {"rewound", "eof"} =>
    /\ hist.got = << >> /\ pc[Prober] = "rewound" /\ hist.last.op = "Seek"
         => Buf.pos = 0
    /\ SliceBytes(heap, Buf.data) = hist.original
    /\ Buf.pos = Len(hist.got)
    /\ hist.got = SubSeq(hist.original, 1, Len(hist.got))
    /\ \A n \in 1..MaxChunk :
         hist.got \o ReadToEnd(Buf, heap, n) = hist.original
    /\ pc[Prober] = "eof" => hist.got = hist.original

C15_Witness ==
  /\ pc[Prober] = "eof"
  /\ cfg[Prober].err # NilErr
  /\ hist.original = TextBytes
  /\ hist.got = TextBytes

\* where a Seek is asked to go, as an integer of any size
SeekTarget(c) ==
  CASE c.whence = SeekStart -> c.offset
    [] c.whence = SeekCurrent -> c.before.pos + c.offset
    [] c.whence = SeekEnd -> c.before.data.len + c.offset

\* C19: the position of a BytesBuf is always between 0 and the length of its
\* data. A Seek from the start, the current position or the end moves the
\* position to the target limited to that range, the nearer limit when the
\* target is an integer of the position's width and the limit of the wrapped
\* sum when it is not, and returns the new position with no error; a Seek
\* with any other whence returns an error and the position, which it leaves
\* unchanged. A Read into n bytes returns the min(n, length - position) bytes
\* at the position and advances the position by as many, and returns io.EOF
\* and no byte exactly when that number is 0, as it is when none remain.
\* After Close the position is 0, the data is gone and every Read returns
\* io.EOF.
C19_Position ==
  LET c == hist.last
  IN /\ 0 <= Buf.pos /\ Buf.pos <= Buf.data.len
     /\ c.op = "Seek" /\ c.whence \in {SeekStart, SeekCurrent, SeekEnd} =>
          /\ c.err = NilErr
          /\ c.ret = Buf.pos
          /\ Buf.data = c.before.data
          /\ SeekTarget(c) \in MinInt..MaxInt =>
               Buf.pos = Max(0, Min(SeekTarget(c), Buf.data.len))
          /\ Buf.pos = Max(0, Min(Wrap(SeekTarget(c)), Buf.data.len))
     /\ c.op = "Seek" /\ c.whence \notin {SeekStart, SeekCurrent, SeekEnd} =>
          /\ c.err # NilErr
          /\ Buf = c.before
          /\ c.ret = c.before.pos
     /\ c.op = "Read" =>
          LET nb == Min(c.n, c.before.data.len - c.before.pos)
          IN /\ Len(c.bytes) = nb
             /\ c.bytes = SubSeq(SliceBytes(heap, c.before.data),
                                 c.before.pos + 1, c.before.pos + nb)
             /\ Buf.pos = c.before.pos + nb
             /\ Buf.data = c.before.data
             /\ c.eof <=> nb = 0
             /\ c.before.pos = c.before.data.len => c.eof /\ c.bytes = << >>
     /\ c.op = "Close" => Buf.pos = 0 /\ Buf.data = NilSlice
     /\ pc[Prober] = "closed" =>
          /\ Buf.data = NilSlice /\ Buf.pos = 0
          /\ \A n \in 0..MaxChunk : BytesBufRead(Buf, heap, n).eof
          /\ c.op = "Read" => c.eof /\ c.bytes = << >>

C19_Witness ==
  /\ pc[Prober] = "opened"
  /\ hist.last.op = "Seek" /\ hist.last.whence = SeekCurrent
  /\ hist.last.offset = MaxInt
  /\ hist.last.before.pos = 2 /\ hist.last.before.data.len = 4
  /\ Buf.pos = 0

\* all the workers have returned from run_worker
AllDone == \A w \in Workers : pc[w] = "done"

\* C16: a worker at the select is never made to wait, and with the queue
\* empty its next step is to return; a worker whose check of keep_going on
\* the item it has just taken finds it cleared returns at that step, and an
\* item taken with keep_going cleared is never read, opened, probed, rendered
\* or sent; a worker that has returned stays so; a worker that has returned
\* while keep_going is set left an empty queue; and, every call of a worker
\* returning and the consumer receiving, all the workers eventually return.
C16_Termination ==
  /\ [](\A w \in Workers : pc[w] = "select" => ENABLED Select(w))
  /\ [][\A w \in Workers :
          /\ pc[w] = "select" /\ files_channel = << >> /\ pc'[w] # "select"
               => pc'[w] = "done"
          /\ pc[w] = "check_claim" /\ ~keep_going /\ pc'[w] # "check_claim"
               => pc'[w] = "done"
          /\ pc[w] = "done" => pc'[w] = "done"]_vars
  /\ [](\A i \in Items :
          hist[i].claims > 0 /\ ~hist[i].at_claim =>
            /\ hist[i].load1 \in {"none", "stop"}
            /\ hist[i].reads = 0 /\ hist[i].opens = 0 /\ ~hist[i].probed
            /\ ~hist[i].rendered /\ hist[i].sent = << >>)
  /\ [](\A w \in Workers :
          pc[w] = "done" /\ keep_going => files_channel = << >>)
  /\ <>AllDone

C16_Witness ==
  /\ AllDone
  /\ ~keep_going
  /\ \E i \in Items : /\ hist[i].claims = 1 /\ ~hist[i].at_claim
                      /\ hist[i].load1 = "stop"
  /\ \E j \in Items : hist[j].sent # << >>

\* the GET of a remote item is answered with a success status and its body
\* is read to the end
GetSucceeds(a) ==
  /\ a.arg.is_http_url /\ ~a.get_err /\ ~NonSuccess(a.status) /\ ~a.read_err

\* C17, as claimed: a remote item whose GET is answered with a status from
\* 200 to 299 and whose body is read to the end is never reported with the
\* error "Could not get", and once process_arg has returned for it, it has
\* been probed unless it was dropped for keep_going.
C17_AsClaimed ==
  \A i \in Items :
    GetSucceeds(world[i]) =>
      /\ \A k \in 1..Len(hist[i].sent) :
           hist[i].sent[k].err = NilErr
             \/ Head(hist[i].sent[k].err) # "Could not get"
      /\ hist[i].returned => hist[i].probed

\* an image_data as report_error makes it: a source name, an error and
\* nothing else
ErrorOnly(r) ==
  /\ r.err # NilErr
  /\ r = [ZeroImageData EXCEPT !.source_name = r.source_name, !.err = r.err]

\* C18: every image_data sent is either an error with a source name (the
\* item's value, or <stdin>), no frame and no other field set, and so none of
\* the frames the renderer left behind when it failed, or has no error and at
\* least one frame, exactly one when it needs no conversion, with in-memory
\* bytes that are still the source's; what is in output_channel is what was
\* sent; and between its send and the return of process_arg the worker's
\* image_data is the one it sent.
C18_Shape ==
  /\ \A i \in Items : \A k \in 1..Len(hist[i].sent) :
       LET r == hist[i].sent[k]
       IN IF r.err # NilErr
          THEN /\ ErrorOnly(r)
               /\ r.frames = << >>
               /\ r.source_name \in {world[i].arg.value, <<"<stdin>">>}
          ELSE /\ Len(r.frames) >= 1
               /\ r.source_name = world[i].arg.value
               /\ ~r.needs_conversion =>
                    /\ Len(r.frames) = 1
                    /\ r.frames[1].in_memory_bytes.ptr # 0 =>
                         SliceBytes(heap, r.frames[1].in_memory_bytes)
                           = world[i].content
  /\ \A k \in 1..Len(output_channel) :
       \E i \in Items : hist[i].sent = <<output_channel[k]>>
  /\ \A w \in Workers :
       pc[w] = "wake" => hist[arg[w]].sent = <<out[w]>>

C18_Witness ==
  /\ \E w \in Workers :
       /\ pc[w] = "wake"
       /\ Len(imgd[w].frames) = 1
       /\ out[w].err # NilErr /\ out[w].frames = << >>
       /\ Head(out[w].err) = "Could not render image to RGB"
  /\ \E j \in Items :
       /\ hist[j].returned /\ hist[j].sent # << >>
       /\ hist[j].sent[1].err = NilErr /\ Len(hist[j].sent[1].frames) = 1
       /\ ~hist[j].sent[1].needs_conversion

\* C20, as claimed: every image_data sent for an item has the item's value
\* as its source name, whatever the outcome.
C20_AsClaimed ==
  \A i \in Items : \A k \in 1..Len(hist[i].sent) :
    hist[i].sent[k].source_name = world[i].arg.value

====
